---- MODULE Spec2Model ----
(***************************************************************************)
(* Model of check_braces.py: a script that reads a text file, keeps a      *)
(* running count of '{' minus '}' line by line, reports the first line at  *)
(* which the count is negative, and reports the final count.               *)
(*                                                                         *)
(* A line is a sequence of characters; a file is a sequence of lines.      *)
(* A message printed by the script is a record holding the text shape      *)
(* (kind) and the numbers formatted into it.                               *)
(***************************************************************************)
EXTENDS Integers, Sequences, FiniteSets

\* ---------------------------------------------------------------- bounds
MaxLineLen == 1
MaxLines == 3
MaxTail == 1

\* ------------------------------------------------------ program constants
\* `i > 700` of the end check.
EndCheckLine == 700
\* `enumerate(lines, 1)`: the number of the first line.
FirstLine == 1

Chars == {"{", "}", "x"}

SeqsUpTo(S, n) == UNION {[1..k -> S] : k \in 0..n}

Lines == SeqsUpTo(Chars, MaxLineLen)

Files == SeqsUpTo(Lines, MaxLines)

\* Files long enough for the end check to be reached: EndCheckLine + 1
\* lines followed by a short tail.  The first lines either hold no brace,
\* or open one on line 1 and close it on line EndCheckLine + 1, so that the
\* balance comes back to 0 on the first line the end check looks at.
BlankPad == [k \in 1..(EndCheckLine + 1) |-> <<>>]

BracePad ==
    [k \in 1..(EndCheckLine + 1) |->
        IF k = 1 THEN <<"{">> ELSE IF k = EndCheckLine + 1 THEN <<"}">> ELSE <<>>]

LongFiles ==
    {pad \o t : pad \in {BlankPad, BracePad},
                t \in SeqsUpTo(Lines, MaxTail) \ {<<>>}}

VARIABLES
    file,        \* the content of the file at the fixed path
    run,         \* "first" or "second": which execution of the script this is
    pc,          \* position in the script
    readStatus,  \* outcome of `open(...)`/`readlines()`: "none", "ok", "failed"
    lines,       \* `lines`
    bound,       \* whether the name `balance` has been assigned
    balance,     \* `balance`
    i,           \* `i`; 0 before the loop has bound it
    out,         \* standard output of this execution, a sequence of messages
    prevPc,      \* how the first execution ended ("none" during the first)
    prevOut,     \* standard output of the first execution
    prevBalance  \* final `balance` of the first execution

vars == <<file, run, pc, readStatus, lines, bound, balance, i, out,
          prevPc, prevOut, prevBalance>>

\* ------------------------------------------------------------- helpers

\* str.count(ch): the number of occurrences of ch in line.
RECURSIVE Count(_, _)
Count(line, ch) ==
    IF line = <<>> THEN 0
    ELSE (IF Head(line) = ch THEN 1 ELSE 0) + Count(Tail(line), ch)

\* f"Negative balance at line {i}: {balance}"
NegativeMsg(n, b) == [kind |-> "Negative balance at line", line |-> n, balance |-> b]

\* f"Missing {balance} closing braces at end of file"
MissingMsg(b) == [kind |-> "Missing closing braces at end of file", balance |-> b]

\* f"Balance is {balance}"
BalanceMsg(b) == [kind |-> "Balance is", balance |-> b]

\* Mutant: the counter is not reset, it carries over what was there before.
InitialBalanceStale == balance

\* `balance = 0`
InitialBalance == 0

\* Mutant: the read error is swallowed and the script goes on with no lines.
OnReadErrorSwallowed == "init"

\* An exception raised by `open`/`readlines` is not caught: the script ends.
OnReadError == "error"

\* Mutant: the line number never advances past the first line.
NextLineStuck(k) == IF k = 0 THEN FirstLine ELSE k

\* `enumerate(lines, 1)`: the number of the line after line k (k = 0: none yet).
NextLine(k) == IF k = 0 THEN FirstLine ELSE k + 1

\* Mutant: the closing braces are not subtracted.
UpdateBalanceNoClose(b, line) == b + Count(line, "{")

\* Mutant: opens and closes are swapped.
UpdateBalanceSwapped(b, line) == (b - Count(line, "{")) + Count(line, "}")

\* `balance += line.count('{')`, `balance -= line.count('}')`
UpdateBalance(b, line) == (b + Count(line, "{")) - Count(line, "}")

\* Mutant: the message is printed but the loop is not left.
NegativeBranchNoBreak(s) ==
    [s EXCEPT !.out = Append(s.out, NegativeMsg(s.i, s.balance))]

\* Mutant: the script exits right after the message, without the final report.
NegativeBranchExit(s) ==
    [s EXCEPT !.out = Append(s.out, NegativeMsg(s.i, s.balance)),
              !.pc = "done"]

\* `if balance < 0: print(...); break`, on the locals s = [balance, i, out, pc]
\* of the loop.
NegativeBranch(s) ==
    [s EXCEPT !.out = Append(s.out, NegativeMsg(s.i, s.balance)),
              !.pc = "report"]

\* Mutant: the end check leaves the loop.
EndCheckBranchBreak(s) == [s EXCEPT !.pc = "report"]

\* `if balance == 0 and i > 700: pass`
EndCheckBranch(s) == s

\* One iteration of the loop body.
LoopBody(s, line) ==
    LET s1 == [s EXCEPT !.balance = UpdateBalance(s.balance, line)]
    IN  IF s1.balance < 0 THEN NegativeBranch(s1)
        ELSE IF s1.balance = 0 /\ s1.i > EndCheckLine THEN EndCheckBranch(s1)
        ELSE s1

\* Mutant: the final report tests `balance != 0` instead of `balance > 0`.
FinalMsgNonZero(b) == IF b # 0 THEN MissingMsg(b) ELSE BalanceMsg(b)

\* Mutant: the final report never takes the missing-braces branch.
FinalMsgNoMissing(b) == BalanceMsg(b)

\* The final report: `if balance > 0: print(...) else: print(...)`.
FinalMsg(b) == IF b > 0 THEN MissingMsg(b) ELSE BalanceMsg(b)

\* ------------------------------------------------------------- the script

StartState ==
    /\ run = "first"
    /\ pc = "open"
    /\ readStatus = "none"
    /\ lines = <<>>
    /\ bound = FALSE
    /\ balance = 0
    /\ i = 0
    /\ out = <<>>
    /\ prevPc = "none"
    /\ prevOut = <<>>
    /\ prevBalance = 0

Init == file \in Files /\ StartState

InitLong == file \in LongFiles /\ StartState

\* `with open(...) as f: lines = f.readlines()` succeeds.
ReadFile ==
    /\ pc = "open"
    /\ readStatus' = "ok"
    /\ lines' = file
    /\ pc' = "init"
    /\ UNCHANGED <<file, run, bound, balance, i, out, prevPc, prevOut, prevBalance>>

\* `open` or `readlines` raises (no such file, permission, decoding).
ReadFail ==
    /\ pc = "open"
    /\ readStatus' = "failed"
    /\ pc' = OnReadError
    /\ UNCHANGED <<file, run, lines, bound, balance, i, out, prevPc, prevOut, prevBalance>>

\* `balance = 0`
InitBalance ==
    /\ pc = "init"
    /\ balance' = InitialBalance
    /\ bound' = TRUE
    /\ pc' = "loop"
    /\ UNCHANGED <<file, run, readStatus, lines, i, out, prevPc, prevOut, prevBalance>>

\* `for i, line in enumerate(lines, 1):` takes the next line and runs the body.
LoopStep ==
    /\ pc = "loop"
    /\ i < Len(lines)
    /\ LET n == NextLine(i)
           s == LoopBody([balance |-> balance, i |-> n, out |-> out, pc |-> "loop"],
                         lines[n])
       IN  /\ balance' = s.balance
           /\ i' = s.i
           /\ out' = s.out
           /\ pc' = s.pc
    /\ UNCHANGED <<file, run, readStatus, lines, bound, prevPc, prevOut, prevBalance>>

\* The iterator is exhausted: the loop ends.
LoopExit ==
    /\ pc = "loop"
    /\ i >= Len(lines)
    /\ pc' = "report"
    /\ UNCHANGED <<file, run, readStatus, lines, bound, balance, i, out,
                   prevPc, prevOut, prevBalance>>

\* The final report is printed and the script ends.
Report ==
    /\ pc = "report"
    /\ out' = Append(out, FinalMsg(balance))
    /\ pc' = "done"
    /\ UNCHANGED <<file, run, readStatus, lines, bound, balance, i,
                   prevPc, prevOut, prevBalance>>

\* The script, having run to its end, is run a second time on the same
\* file.  A new process starts: nothing of the first one is bound; its output
\* and final balance are kept aside for comparison.  The variable `balance`
\* keeps its old value as the content of a name that is not bound yet.
Rerun ==
    /\ run = "first"
    /\ pc = "done"
    /\ run' = "second"
    /\ prevPc' = pc
    /\ prevOut' = out
    /\ prevBalance' = balance
    /\ pc' = "open"
    /\ readStatus' = "none"
    /\ lines' = <<>>
    /\ bound' = FALSE
    /\ i' = 0
    /\ out' = <<>>
    /\ UNCHANGED <<file, balance>>

\* A step of the interpreter executing the script.
Step ==
    \/ ReadFile
    \/ ReadFail
    \/ InitBalance
    \/ LoopStep
    \/ LoopExit
    \/ Report

Next ==
    \/ Step
    \/ Rerun

Spec == Init /\ [][Next]_vars

SpecLong == InitLong /\ [][Next]_vars

\* The interpreter runs the script to its end (single thread, nothing
\* blocks after the read): a step of the script that can be taken is taken.
\* Whether the script is run again is up to the operator: no fairness there.
FairSpec == Spec /\ WF_vars(Step)

\* ------------------------------------------- what the claims speak about
\* These definitions read the file itself, not the script's counters.

\* The number of characters ch in line.
Occurrences(line, ch) == Cardinality({c \in 1..Len(line) : line[c] = ch})

\* Opens minus closes of one line.
LineDelta(line) == Occurrences(line, "{") - Occurrences(line, "}")

\* Opens minus closes over the lines a..b of ls (halving, so that long
\* files do not nest deeply).
RECURSIVE RangeBalance(_, _, _)
RangeBalance(ls, a, b) ==
    IF a > b THEN 0
    ELSE IF a = b THEN LineDelta(ls[a])
    ELSE LET m == (a + b) \div 2
         IN  RangeBalance(ls, a, m) + RangeBalance(ls, m + 1, b)

\* Opens minus closes over the lines 1..k of ls.
PrefixBalance(ls, k) == RangeBalance(ls, 1, k)

\* The positions <<line, column>> of ls that hold the character ch.
Positions(ls, ch) ==
    UNION {{l} \X {c \in 1..Len(ls[l]) : ls[l][c] = ch} : l \in 1..Len(ls)}

TotalOpen(ls) == Cardinality(Positions(ls, "{"))

TotalClose(ls) == Cardinality(Positions(ls, "}"))

NegativeLines(ls) == {k \in 1..Len(ls) : PrefixBalance(ls, k) < 0}

NeverNegative(ls) == NegativeLines(ls) = {}

\* The smallest line whose prefix balance is negative (0 when there is none).
FirstNegative(ls) ==
    IF NeverNegative(ls) THEN 0
    ELSE CHOOSE k \in NegativeLines(ls) : \A m \in NegativeLines(ls) : k <= m

\* The positions of out holding a negative-balance message.
NegativeMsgs(o) == {j \in 1..Len(o) : o[j].kind = "Negative balance at line"}

MissingMsgs(o) ==
    {j \in 1..Len(o) : o[j].kind = "Missing closing braces at end of file"}

BalanceMsgs(o) == {j \in 1..Len(o) : o[j].kind = "Balance is"}

\* The script has read the file and run to its end.
Finished == pc = "done"

\* ------------------------------------------------------------- the claims

\* C1: when some line's prefix balance is negative, the message
\* `Negative balance at line L: b` is emitted exactly once, with L the first
\* such line and b the prefix balance at L; no line after L is scanned (the
\* line index and the balance stay those of line L); and the message is
\* never emitted when every prefix balance is >= 0.
C1_FirstNegativeReported ==
    /\ Cardinality(NegativeMsgs(out)) <= 1
    /\ NeverNegative(file) => NegativeMsgs(out) = {}
    /\ ~NeverNegative(file) /\ bound =>
          /\ i <= FirstNegative(file)
          /\ NegativeMsgs(out) # {} => i = FirstNegative(file)
    /\ Finished /\ ~NeverNegative(file) =>
          LET L == FirstNegative(file)
          IN  /\ Cardinality(NegativeMsgs(out)) = 1
              /\ out[1] = NegativeMsg(L, PrefixBalance(file, L))
              /\ i = L
              /\ balance = PrefixBalance(file, L)

C1_Witness ==
    /\ Finished
    /\ Len(file) = 3
    /\ FirstNegative(file) = 2
    /\ out[1] = NegativeMsg(2, -1)

\* C2 as stated: a scan that reads its file prints exactly one message.
C2_ExactlyOneMessage == Finished => Len(out) = 1

\* C2 as amended: the output is one final message (`Missing b closing
\* braces at end of file` with b > 0, or `Balance is b` with b <= 0, never
\* both), preceded by the negative-balance message exactly when some prefix
\* balance is negative, and then the final message is `Balance is b` with
\* the b of the negative-balance message: one or two messages, never more.
C2_OneFinalMessage ==
    Finished =>
        /\ Len(out) \in {1, 2}
        /\ Cardinality(MissingMsgs(out)) + Cardinality(BalanceMsgs(out)) = 1
        /\ out[Len(out)].kind # "Negative balance at line"
        /\ \A j \in MissingMsgs(out) : out[j].balance > 0
        /\ \A j \in BalanceMsgs(out) : out[j].balance <= 0
        /\ Len(out) = 2 <=> ~NeverNegative(file)
        /\ Len(out) = 2 =>
              /\ out[1].kind = "Negative balance at line"
              /\ out[2] = BalanceMsg(out[1].balance)

C2_Witness == Finished /\ Len(out) = 2 /\ Len(file) = 2

\* C3: when the file has as many `{` as `}` and no prefix balance is
\* negative (the empty file included), the output is exactly `Balance is 0`.
C3_BalancedFile ==
    Finished /\ NeverNegative(file) /\ TotalOpen(file) = TotalClose(file) =>
        out = <<BalanceMsg(0)>>

C3_Witness ==
    /\ Finished
    /\ NeverNegative(file)
    /\ TotalOpen(file) = 1
    /\ TotalClose(file) = 1
    /\ out = <<BalanceMsg(0)>>

\* C4: when the file has more `{` than `}` and no prefix balance is negative,
\* the output is the single message `Missing d closing braces at end of
\* file` with d = total opens - total closes over all the lines.
C4_MissingBraces ==
    Finished /\ NeverNegative(file) /\ TotalOpen(file) > TotalClose(file) =>
        out = <<MissingMsg(TotalOpen(file) - TotalClose(file))>>

C4_Witness ==
    /\ Finished
    /\ NeverNegative(file)
    /\ TotalOpen(file) = 2
    /\ TotalClose(file) = 1
    /\ out = <<MissingMsg(1)>>

C6_ReadErrorAborts ==
    readStatus = "failed" =>
        /\ pc = "error"
        /\ ~bound
        /\ i = 0
        /\ lines = <<>>
        /\ out = <<>>

C6_Witness == readStatus = "failed" /\ run = "second" /\ file # <<>>

\* C7: once assigned, balance equals the opens minus the closes of the lines
\* 1..i processed so far; it is 0 before the first line; and a step of the
\* loop changes it by exactly opens minus closes of the line it processes.
C7_RunningBalance ==
    /\ [](bound => balance = PrefixBalance(file, i))
    /\ [](pc = "loop" /\ i = 0 => balance = 0)
    /\ [][pc = "loop" /\ i' # i =>
             balance' = balance + LineDelta(file[i'])]_vars

C7_Witness ==
    /\ pc = "loop"
    /\ i = 2
    /\ balance = 2
    /\ Len(file) = 3

\* C8: when the scan ends early at line L, the final report still runs and
\* prints `Balance is b` with the negative b of the negative-balance message;
\* the missing-braces message is not printed in such a run, whatever the
\* lines after L hold.
C8_EarlyExitReport ==
    Finished /\ ~NeverNegative(file) =>
        LET L == FirstNegative(file)
            b == PrefixBalance(file, L)
        IN  /\ b < 0
            /\ out = <<NegativeMsg(L, b), BalanceMsg(b)>>
            /\ MissingMsgs(out) = {}

C8_Witness ==
    /\ Finished
    /\ FirstNegative(file) = 1
    /\ Len(file) = 3
    /\ TotalOpen(file) > TotalClose(file)
    /\ out = <<NegativeMsg(1, -1), BalanceMsg(-1)>>

\* C9: the scan terminates on every file: the line index starts at 1 and
\* goes up by one per step of the loop, never past the last line, so each
\* line is processed at most once and in order; and once the file has been
\* read the final report is eventually printed.
C9_Terminates ==
    /\ [](i <= Len(lines))
    /\ [][pc = "loop" /\ i < Len(lines) => i' = i + 1]_vars
    /\ [][i' # i => \/ pc = "loop" /\ i' = i + 1
                    \/ run' # run /\ i' = 0]_vars
    /\ (readStatus = "ok" /\ pc = "init") ~>
          (Finished /\ Len(out) >= 1 /\ out[Len(out)] = FinalMsg(balance))

C9_Witness ==
    /\ Finished
    /\ i = 3
    /\ Len(lines) = 3
    /\ run = "second"

\* The first line k of a..b at which start + (opens minus closes of a..k)
\* is negative, 0 when there is none (halving, as RangeBalance).
RECURSIVE FirstNegativeIn(_, _, _, _)
FirstNegativeIn(ls, a, b, start) ==
    IF a > b THEN 0
    ELSE IF a = b THEN (IF start + LineDelta(ls[a]) < 0 THEN a ELSE 0)
    ELSE LET m == (a + b) \div 2
             left == FirstNegativeIn(ls, a, m, start)
         IN  IF left # 0 THEN left
             ELSE FirstNegativeIn(ls, m + 1, b, start + RangeBalance(ls, a, m))

\* The output and final balance of a scan that has no end check at all:
\* it stops at the first line whose prefix balance is negative, or at the
\* end of the file.
ScanWithoutEndCheck(ls) ==
    LET L == FirstNegativeIn(ls, 1, Len(ls), 0)
        b == PrefixBalance(ls, IF L = 0 THEN Len(ls) ELSE L)
    IN  [out |-> IF L # 0 THEN <<NegativeMsg(L, b), BalanceMsg(b)>>
                 ELSE IF b > 0 THEN <<MissingMsg(b)>>
                 ELSE <<BalanceMsg(b)>>,
         balance |-> b]

\* C10: the check `balance == 0 and i > 700` does nothing: the step that
\* takes it prints nothing and stays in the loop, and on every file (those
\* whose balance is 0 after line 700 included) the script ends with the
\* output and balance of a scan without the check.
C10_EndCheckNoOp ==
    /\ [](Finished =>
            /\ out = ScanWithoutEndCheck(file).out
            /\ balance = ScanWithoutEndCheck(file).balance)
    /\ [][pc = "loop" /\ i' = i + 1 /\ i' > EndCheckLine /\ balance' = 0 =>
             /\ pc' = "loop"
             /\ out' = out]_vars

C10_Witness ==
    /\ Finished
    /\ Len(file) = EndCheckLine + 2
    /\ file[1] = <<"{">>
    /\ PrefixBalance(file, EndCheckLine + 1) = 0
    /\ out = <<MissingMsg(1)>>

====
